---- MODULE Spec2Model ----
(***************************************************************************)
(* Verification model of the home0-api ingestion pipeline:                 *)
(*   - PropertyDetails.run, the batch coordinator (zillow/workflows/       *)
(*     property-details.ts),                                               *)
(*   - the BrightData webhook handlers (zillow/webhooks),                  *)
(*   - DataCollector.run, the discovery workflow's completion detection,   *)
(*   - the relational writers of database/schema.ts and the                *)
(*     store-property-details step.                                        *)
(***************************************************************************)
EXTENDS Integers, Sequences, FiniteSets, TLC

VARIABLES
    pc,              \* position of PropertyDetails.run
    items,           \* validPropertiesData
    batchSizeParam,  \* event.payload.batchSize (Undefined when not supplied)
    batches,         \* batches
    batchIndex,      \* batchIndex (0-based, as in the code)
    retryCount,      \* retryCount of the current batch
    snapshotId,      \* result.snapshot_id of the current batch (NoHandle before submission)
    webhookSecret,   \* webhookSecret of the current batch
    batchResults,    \* batchResults
    thrown,          \* history: for each resolved batch, whether its try block threw
    nextHandle,      \* provider side: next snapshot id the provider hands out
    lastPoll,        \* history: what the provider answered in the iteration that resolved the last batch
    fetched,         \* history: response bodies the snapshot endpoint served for the current batch
    mapping,         \* table snapshot_workflow_mapping: snapshot_id -> webhook_secret (NoSecret = no row)
    instance,        \* state written to the workflow instance by instance.update
    quarantine,      \* snapshot ids with an object under temp-webhooks/<snapshot_id>/
    lastHook,        \* history: the last webhook request and its response
    hookBody,        \* history: content type and body of the last webhook request
    hookReady,       \* history: handles for which a completion notify was accepted
    polledAfterReady, \* history: handles polled at the provider after such an acceptance
    props,           \* table properties: zpid key -> "absent", or the row's has_details ("unset", "set")
    details,         \* table property_details: the zpid keys that have a row
    nested,          \* tables property_photos, price_history, tax_history, schools: per zpid key,
                     \* how many payloads' entries are stored under it
    job,             \* the record being persisted: its writer, plan position and writes so far
    dcPc,            \* position of DataCollector.run
    dcProd,          \* isProduction (webhook mode)
    dcRetries,       \* retries the substrate has spent on wait-for-brightdata-completion
    dcLastStatus,    \* history: what the last progress request returned
    dcError,         \* message of the last error thrown by the step
    dcRow,           \* status of the run's collections row (temp_<workflowId>)
    dcSnapshot,      \* snapshot id the submission step returned
    dcSecret,        \* secret embedded in the notify and endpoint URLs of the submission
    dcTries,         \* retries the substrate has spent on the step being executed
    dcData,          \* rawZillowData: the records decoded from the response text
    dcMirror,        \* whether the R2 object of the run exists
    dcStored,        \* positions of rawZillowData whose properties row has been written
    dcReported,      \* record_count / storedRecords the run reports (Unset before)
    dcRows,          \* the collection_<time>_<snapshot> rows of the run, counted by status
    payload,         \* responseText: the text a snapshot request returned
    decoded,         \* what each workflow's parsing code makes of payload
    workflowRun,     \* the workflow_runs row of the run id: its status and metric columns
    stepTries,       \* retries the substrate has spent on the durable step being executed
    applied,         \* history: the metrics last given to updateMetrics, and how often in a row
    lastAttempt,     \* history: the last execution of a tracking step by the substrate
    favorites,       \* table favorites: the zpids the user has a favorite row for
    favReq,          \* the create-favorite requests being handled: position, zpid, response
    autoTable,       \* rows of properties as handleZillowDetailsAuto sees them, oldest first
    autoResult,      \* the last auto-enrichment request and the zpids it selected
    chunker,         \* the batches loop of process-property-details, iteration by iteration
    detailReq        \* the zpids a detail run was asked for, and the skipped count it reports

pdVars == <<pc, items, batchSizeParam, batches, batchIndex, retryCount, snapshotId,
            webhookSecret, batchResults, thrown, nextHandle, lastPoll, fetched>>
hookVars == <<mapping, instance, quarantine, lastHook, hookBody, hookReady,
              polledAfterReady>>
storeVars == <<props, details, nested, job>>
dcTail == <<dcSnapshot, dcSecret, dcTries, dcData, dcMirror, dcStored, dcReported, dcRows>>
dcVars == <<dcPc, dcProd, dcRetries, dcLastStatus, dcError, dcRow, dcTail>>
decVars == <<payload, decoded>>
trkVars == <<workflowRun, stepTries, applied, lastAttempt>>
appVars == <<favorites, favReq, autoTable, autoResult, chunker, detailReq>>
auxVars == <<decVars, trkVars, appVars>>
vars == <<pdVars, hookVars, storeVars, dcVars, auxVars>>

(***************************************************************************)
(* Bounds                                                                  *)
(***************************************************************************)
MaxItems == 2          \* items of a coordinated run
MaxChunkItems == 25    \* items of a run in the chunking specification
MaxChunkBatch == 11    \* largest batchSize in the chunking specification
MaxFetched == 2        \* bodies without data served for one batch before the data
MaxLines == 3          \* lines of a response text, elements of a JSON array
MaxMetric == 2         \* largest value of a metrics field
MaxReplays == 2        \* times the same metrics object is applied in a row
MaxStepRetries == 2    \* retries the substrate grants a durable step
MaxVersions == 2       \* payloads of one identifier whose nested entries get stored
MaxRequested == 2      \* zpids a detail run is asked for
MaxSplitItems == 3     \* validated items the batches loop is followed on
MaxRows == 3           \* rows of properties an auto-enrichment request looks at
MaxLimit == 2          \* largest limit an auto-enrichment request names
MaxRequests == 3       \* create-favorite requests handled at the same time
MaxRecords == 2        \* records in one provider payload

(***************************************************************************)
(* Program constants                                                       *)
(***************************************************************************)
DefaultLimit == 50     \* body.limit || 50
DefaultBatchSize == 10
maxRetries == 20

Undefined == 0
NoHandle == 0
NoSecret == <<>>
NoError == ""

Min(a, b) == IF a < b THEN a ELSE b

\* mutant of Slice: the end index is taken as inclusive of one element less
Slice_Short(s, from, to) ==
    [k \in 1..(Min(to - 1, Len(s)) - Min(from, Len(s))) |-> s[from + k]]

\* Array.prototype.slice(from, to) on a sequence (0-based, half-open)
Slice(s, from, to) ==
    [k \in 1..(Min(to, Len(s)) - Min(from, Len(s))) |-> s[from + k]]

\* const { batchSize = 10 } = event.payload
EffectiveBatchSize(param) == IF param = Undefined THEN DefaultBatchSize ELSE param

\* for (let i = 0; i < n; i += batchSize) batches.push(slice(i, i + batchSize))
RECURSIVE BatchesFrom(_, _, _)
BatchesFrom(its, b, i) ==
    IF i < Len(its)
    THEN <<Slice(its, i, i + b)>> \o BatchesFrom(its, b, i + b)
    ELSE <<>>

Batches(its, b) == BatchesFrom(its, b, 0)

(***************************************************************************)
(* PropertyDetails.run: the batch coordinator                              *)
(***************************************************************************)
Handles == 1..(MaxItems + 1)     \* snapshot ids; the provider issues at most MaxItems of them
UUIDs == {<<"a", "b">>, <<"b", "a">>, <<"c", "c">>}   \* values of crypto.randomUUID()
ProgressStatuses == {"notok", "running", "pending", "failed", "ready", "other"}
SnapshotKinds == {"empty400", "notexist400", "err", "array", "dataobj", "zpidobj",
                  "otherobj", "ndjson"}

\* nothing polled yet for the current batch
NoPoll == [progress |-> "", snap |-> ""]
\* answers of the snapshot endpoint with statusResponse.ok, whose text is read and parsed
OkBodies == {"array", "dataobj", "zpidobj", "otherobj", "ndjson"}
\* the iteration goes on to request the snapshot unless the progress answer ended it
Fetches(progress) == progress \notin {"running", "pending", "failed"}
NoInstance == [webhookReceived |-> FALSE, webhookStatus |-> "", dataDelivered |-> FALSE,
               dataRecordCount |-> 0]
NoBody == [ctype |-> "", kind |-> "none", body |-> <<>>]
NoHook == [kind |-> "none", secret |-> NoSecret, auth |-> <<>>, sid |-> NoHandle,
           status |-> "", records |-> 0, resp |-> 0, updated |-> FALSE, stored |-> FALSE]

Keys == {"n", "n.0"}     \* the zpid n as stored text, without and with the float suffix
Tables == {"property_photos", "price_history", "tax_history", "schools"}
NoJob == [run |-> "none", zpid |-> "", detailed |-> FALSE, cols |-> {}, idx |-> 0,
          written |-> {}, flagged |-> FALSE, outcome |-> "idle"]

\* an empty relational store, nothing being persisted
StoreInit ==
    /\ props = [k \in Keys |-> "absent"]
    /\ details = {}
    /\ nested = [t \in Tables |-> [k \in Keys |-> 0]]
    /\ job = NoJob

\* nothing submitted, fetched or stored by the discovery run
DCTailInit ==
    /\ dcSnapshot = NoHandle
    /\ dcSecret = NoSecret
    /\ dcTries = 0
    /\ dcData = <<>>
    /\ dcMirror = FALSE
    /\ dcStored = {}
    /\ dcReported = -1
    /\ dcRows = [pending |-> 0, completed |-> 0]

\* no discovery run
DCIdle ==
    /\ dcPc = "none"
    /\ dcProd = FALSE
    /\ dcRetries = 0
    /\ dcLastStatus = ""
    /\ dcError = ""
    /\ dcRow = "none"
    /\ DCTailInit

\* no response text at hand
NoPayload == [kind |-> "none", body |-> <<>>]
NoDecoded == [w \in {"DataCollector", "ZillowDataCollector", "PropertyDetails"} |->
                 [outcome |-> "none", records |-> <<>>]]
\* metric columns of workflow_runs
TotalCounters == {"total_requested", "total_processed", "total_errors", "total_skipped"}
FileCounters == {"r2_files_created", "r2_total_size_bytes", "brightdata_snapshots"}
Counters == TotalCounters \cup FileCounters
\* a field of Partial<WorkflowMetrics> that is undefined
Unset == -1
\* no row for the run id
NoRun == [status |-> "absent", counters |-> [c \in Counters |-> 0]]
NoApplied == [metrics |-> [c \in Counters |-> Unset], times |-> 0]
\* no tracking step executed yet; healthy: the store accepted every statement it was sent
NoAttempt == [step |-> "", again |-> FALSE, healthy |-> TRUE, threw |-> FALSE]
TrackerInit ==
    /\ workflowRun = NoRun
    /\ stepTries = 0
    /\ applied = NoApplied
    /\ lastAttempt = NoAttempt
\* no favorite, no request being handled, no auto-enrichment request made
NoRequest == [pc |-> "idle", zpid |-> "", resp |-> 0]
NoAuto == [called |-> FALSE, limit |-> 0, byCollection |-> FALSE, zpids |-> <<>>]
\* the batches loop not entered; sizes and positions are counted in halves
NoChunker == [pc |-> "idle", n |-> 0, size2 |-> 0, i2 |-> 0, chunks |-> <<>>]
\* no detail run requested; skipped is -1 until the run reports it
NoDetailReq == [zpids |-> <<>>, skipped |-> -1]
AppInit ==
    /\ favorites = {}
    /\ favReq = [r \in 1..MaxRequests |-> NoRequest]
    /\ autoTable = <<>>
    /\ autoResult = NoAuto
    /\ chunker = NoChunker
    /\ detailReq = NoDetailReq
AuxInit ==
    /\ payload = NoPayload
    /\ decoded = NoDecoded
    /\ TrackerInit
    /\ AppInit

HookInit ==
    /\ instance = NoInstance
    /\ quarantine = {}
    /\ lastHook = NoHook
    /\ hookBody = NoBody
    /\ hookReady = {}
    /\ polledAfterReady = {}

PDInitWith(maxN, sizes) ==
    /\ pc = "validate"
    /\ \E n \in 0..maxN : items = [k \in 1..n |-> k]
    /\ batchSizeParam \in {Undefined} \cup sizes
    /\ batches = <<>>
    /\ batchIndex = 0
    /\ retryCount = 0
    /\ snapshotId = NoHandle
    /\ webhookSecret = NoSecret
    /\ batchResults = <<>>
    /\ thrown = <<>>
    /\ nextHandle = 1
    /\ lastPoll = NoPoll
    /\ fetched = 0
    /\ mapping = [h \in Handles |-> NoSecret]
    /\ HookInit
    /\ AuxInit
    /\ StoreInit
    /\ DCIdle

\* if (validPropertiesData.length === 0) return { ... 'No properties need detail collection' }
PDValidate ==
    /\ pc = "validate"
    /\ pc' = IF Len(items) = 0 THEN "returned" ELSE "split"
    /\ UNCHANGED <<items, batchSizeParam, batches, batchIndex, retryCount, snapshotId,
                   webhookSecret, batchResults, thrown, nextHandle, lastPoll,
                   fetched, hookVars,
                   storeVars, dcVars, auxVars>>

\* mutant of NextPc: an exception of a batch leaves the loop
NextPc_Abort(idx, didThrow) ==
    IF didThrow THEN "done" ELSE IF idx + 1 < Len(batches) THEN "submit" ELSE "done"

\* position after the batch at 0-based index idx is resolved: the for loop goes on
NextPc(idx, didThrow) == IF idx + 1 < Len(batches) THEN "submit" ELSE "done"

PDSplit ==
    /\ pc = "split"
    /\ batches' = Batches(items, EffectiveBatchSize(batchSizeParam))
    /\ pc' = IF Len(batches') > 0 THEN "submit" ELSE "done"
    /\ UNCHANGED <<items, batchSizeParam, batchIndex, retryCount, snapshotId,
                   webhookSecret, batchResults, thrown, nextHandle, lastPoll,
                   fetched, hookVars,
                   storeVars, dcVars, auxVars>>

\* catch (error) { batchResults.push({ batchIndex, zpids, error: message, dataCount: 0 }) }
CatchBatch(idx, message) ==
    [batchIndex |-> idx + 1, zpids |-> batches[idx + 1], error |-> message,
     dataCount |-> 0, hasData |-> FALSE, snapshotId |-> NoHandle]

\* batchResults.push({ batchIndex, zpids, dataCount: detailsData.length, data, snapshotId })
SuccessBatch(idx, count, snap) ==
    [batchIndex |-> idx + 1, zpids |-> batches[idx + 1], error |-> NoError,
     dataCount |-> count, hasData |-> TRUE, snapshotId |-> snap]

\* the batch resolves with outcome r; the loop moves to the next batch
Resolve(r, didThrow) ==
    /\ batchResults' = Append(batchResults, r)
    /\ thrown' = Append(thrown, didThrow)
    /\ batchIndex' = batchIndex + 1
    /\ pc' = NextPc(batchIndex, didThrow)
    /\ retryCount' = 0
    /\ snapshotId' = NoHandle
    /\ webhookSecret' = NoSecret

\* trigger request and INSERT INTO snapshot_workflow_mapping
PDSubmit(resp, dbOk) ==
    /\ pc = "submit"
    /\ \E s \in UUIDs :
        /\ \A h \in Handles : mapping[h] # s
        /\ IF resp = "rejected"
           THEN /\ Resolve(CatchBatch(batchIndex, "BrightData API error"), TRUE)
                /\ UNCHANGED <<nextHandle, mapping>>
           ELSE /\ nextHandle' = nextHandle + 1
                /\ IF dbOk
                   THEN /\ mapping' = [mapping EXCEPT ![nextHandle] = s]
                        /\ snapshotId' = nextHandle
                        /\ webhookSecret' = s
                        /\ retryCount' = 0
                        /\ pc' = "poll"
                        /\ UNCHANGED <<batchIndex, batchResults, thrown>>
                   ELSE /\ Resolve(CatchBatch(batchIndex, "D1 error"), TRUE)
                        /\ UNCHANGED mapping
    /\ lastPoll' = NoPoll
    /\ fetched' = 0
    /\ UNCHANGED <<items, batchSizeParam, batches, instance, quarantine, lastHook, hookBody,
                   hookReady, polledAfterReady, storeVars, dcVars, auxVars>>

\* mutant of Retry: running out of attempts is reported with the message of a failed job
Retry_AsFailed ==
    IF retryCount + 1 < maxRetries
    THEN /\ retryCount' = retryCount + 1
         /\ UNCHANGED <<pc, batchIndex, snapshotId, webhookSecret, batchResults, thrown>>
    ELSE Resolve(CatchBatch(batchIndex, "BrightData collection failed"), TRUE)

\* retryCount++; continue  -- and, when the while condition then fails, the timeout throw
Retry ==
    IF retryCount + 1 < maxRetries
    THEN /\ retryCount' = retryCount + 1
         /\ UNCHANGED <<pc, batchIndex, snapshotId, webhookSecret, batchResults, thrown>>
    ELSE Resolve(CatchBatch(batchIndex, "timeout - max retries exceeded"), TRUE)

\* one iteration of while (retryCount < maxRetries && !completedData)
PDPoll(progress, snap, count) ==
    /\ pc = "poll"
    /\ retryCount < maxRetries
    /\ polledAfterReady' = polledAfterReady \cup ({snapshotId} \cap hookReady)
    /\ (Fetches(progress) /\ snap = "otherobj") => fetched < MaxFetched
    /\ IF progress \in {"running", "pending"} THEN Retry
       ELSE IF progress = "failed"
       THEN Resolve(CatchBatch(batchIndex, "BrightData collection failed"), TRUE)
       ELSE CASE snap = "empty400" -> Resolve(SuccessBatch(batchIndex, 0, snapshotId), FALSE)
              [] snap \in {"notexist400", "err"} -> Retry
              [] snap \in {"array", "dataobj"} ->
                     Resolve(SuccessBatch(batchIndex, count, snapshotId), FALSE)
              [] snap = "zpidobj" -> Resolve(SuccessBatch(batchIndex, 1, snapshotId), FALSE)
              [] snap = "otherobj" ->
                     UNCHANGED <<pc, batchIndex, retryCount, snapshotId, webhookSecret,
                                 batchResults, thrown>>
              [] snap = "ndjson" ->
                     IF count > 0
                     THEN Resolve(SuccessBatch(batchIndex, count, snapshotId), FALSE)
                     ELSE Resolve(CatchBatch(batchIndex, "Failed to parse response"), TRUE)
    /\ fetched' = IF Fetches(progress) /\ snap \in OkBodies THEN fetched + 1 ELSE fetched
    /\ lastPoll' = IF Len(batchResults') > Len(batchResults)
                   THEN [progress |-> progress, snap |-> IF Fetches(progress) THEN snap ELSE ""]
                   ELSE NoPoll
    /\ UNCHANGED <<items, batchSizeParam, batches, nextHandle, mapping, instance,
                   quarantine, lastHook, hookBody, hookReady, storeVars, dcVars, auxVars>>

(***************************************************************************)
(* Texts received from the provider: response texts and webhook bodies     *)
(***************************************************************************)
\* A response text is a JSON document ("array": [r, ...]; "dataobj": {"status":"ready",
\* "data":[r, ...]}) or a sequence of lines ("lines"). A line is blank (""), malformed
\* ("bad"), a record object with a zpid and no status ("r1", "r2"), or the object
\* {"status":"ready"} ("meta"). "rs" is a record object that has a zpid and also a status
\* property of its own, with a value that is not a provider status ("FOR_SALE").
RecordTokens == {"r1", "r2", "rs"}
LineTokens == {"", "bad", "meta"} \cup RecordTokens
SeqsUpTo(S, n) == UNION {[1..k -> S] : k \in 0..n}
Payloads ==
    {[kind |-> k, body |-> b] : k \in {"array", "dataobj"}, b \in SeqsUpTo(RecordTokens, MaxLines)}
        \cup {[kind |-> "lines", body |-> b] : b \in SeqsUpTo(LineTokens, MaxLines)}

\* if (line) / if (line.trim())
NonBlank(ls) == SelectSeq(ls, LAMBDA t : t # "")
\* the lines JSON.parse(line) accepts, in order
WellFormed(ls) == SelectSeq(ls, LAMBDA t : t \notin {"", "bad"})
\* responseText.trim().split('\n')
TrimSplit(ls) ==
    LET nb == {i \in 1..Len(ls) : ls[i] # ""}
    IN  IF nb = {} THEN <<"">>
        ELSE SubSeq(ls, CHOOSE i \in nb : \A j \in nb : i <= j,
                        CHOOSE i \in nb : \A j \in nb : i >= j)

\* JSON.parse(responseText) does not throw: a JSON document, or one well-formed line
\* with nothing but white space around it
ParsesWhole(p) ==
    \/ p.kind \in {"array", "dataobj"}
    \/ p.kind = "lines" /\ Len(NonBlank(p.body)) = 1 /\ NonBlank(p.body)[1] # "bad"

(***************************************************************************)
(* Webhook handlers (handleBrightDataNotify, handleBrightDataEndpoint)     *)
(***************************************************************************)
\* request values of the secret query parameter; <<>> is a missing or empty parameter
QuerySecrets == {<<>>, <<"a">>, <<"a", "b">>, <<"b", "a">>}
\* `Bearer ${secret}`
Bearer(secret) == <<"Bearer ">> \o secret
\* request values of the Authorization header; <<>> is a missing header
AuthHeaders == {<<>>, <<"a", "b">>, Bearer(<<"a">>), Bearer(<<"a", "b">>), Bearer(<<"b", "a">>)}
NotifyStatuses == {"", "running", "completed", "failed"}

\* validateWebhookSecurity: only the presence of the query secret is checked here
validateWebhookSecurity(secret) == secret # <<>>

\* getWorkflowMappingBySnapshot
HasMapping(sid) == sid \in Handles /\ mapping[sid] # NoSecret

\* mutant of NotifySecretMismatch: the stored secret only has to start with the given one
NotifySecretMismatch_Prefix(sid, secret) ==
    ~(/\ Len(secret) <= Len(mapping[sid])
      /\ \A i \in 1..Len(secret) : secret[i] = mapping[sid][i])

\* mapping.webhook_secret !== webhookSecret
NotifySecretMismatch(sid, secret) == mapping[sid] # secret

\* mutant of EndpointAuthMismatch: only the presence of the header is checked
EndpointAuthMismatch_Presence(sid, auth) == auth = <<>>

\* !authHeader || authHeader !== `Bearer ${mapping.webhook_secret}`
EndpointAuthMismatch(sid, auth) == auth = <<>> \/ auth # Bearer(mapping[sid])

\* mutant of TempKeyPrefix: the key does not name the snapshot
TempKeyPrefix_Flat(sid) == NoHandle

\* const tempKey = `temp-webhooks/${snapshotId}/data-${Date.now()}.jsonl`
TempKeyPrefix(sid) == sid

Respond(kind, secret, auth, sid, status, records, code, upd, st) ==
    lastHook' = [kind |-> kind, secret |-> secret, auth |-> auth, sid |-> sid,
                 status |-> status, records |-> records, resp |-> code,
                 updated |-> upd, stored |-> st]

\* the request bodies of a status notification: a JSON object, or text req.json() rejects
NotifyBodies == {[ctype |-> "json", kind |-> k, body |-> <<>>] : k \in {"object", "invalid"}}

\* a JSON array of n records, and a JSON object, sent with content type application/json
JsonArray(n) == [ctype |-> "json", kind |-> "array", body |-> [i \in 1..n |-> "r1"]]
JsonObject == [ctype |-> "json", kind |-> "object", body |-> <<>>]

handleBrightDataNotify(secret, body, sid, status) ==
    /\ hookBody' = body
    /\ IF ~validateWebhookSecurity(secret)
       THEN /\ Respond("notify", secret, <<>>, sid, status, 0, 401, FALSE, FALSE)
            /\ UNCHANGED <<instance, hookReady>>
       ELSE IF body.kind = "invalid"
       THEN \* await req.json() throws inside the try: catch -> 500
            /\ Respond("notify", secret, <<>>, sid, status, 0, 500, FALSE, FALSE)
            /\ UNCHANGED <<instance, hookReady>>
       ELSE IF sid = NoHandle \/ status = ""
       THEN /\ Respond("notify", secret, <<>>, sid, status, 0, 400, FALSE, FALSE)
            /\ UNCHANGED <<instance, hookReady>>
       ELSE IF ~HasMapping(sid)
       THEN /\ Respond("notify", secret, <<>>, sid, status, 0, 404, FALSE, FALSE)
            /\ UNCHANGED <<instance, hookReady>>
       ELSE IF NotifySecretMismatch(sid, secret)
       THEN /\ Respond("notify", secret, <<>>, sid, status, 0, 401, FALSE, FALSE)
            /\ UNCHANGED <<instance, hookReady>>
       ELSE /\ instance' = [instance EXCEPT !.webhookReceived = TRUE,
                                            !.webhookStatus = status]
            /\ hookReady' = IF status \in {"ready", "completed"}
                            THEN hookReady \cup {sid} ELSE hookReady
            /\ Respond("notify", secret, <<>>, sid, status, 0, 200, TRUE, FALSE)
    /\ UNCHANGED <<pdVars, mapping, quarantine, polledAfterReady, storeVars, dcVars, auxVars>>

\* the body of a data delivery as the handler reads it. With an ndjson or jsonl content
\* type: text.trim().split('\n').map(line => JSON.parse(line)), which throws on the first
\* line that is blank or malformed. With any other content type: req.json(), which throws
\* unless the whole text is one JSON document; a document that is not an array is
\* "invalid" (answered 400)
parseDelivery(b) ==
    IF b.ctype = "ndjson"
    THEN LET lines == TrimSplit(b.body)
         IN  IF \E i \in 1..Len(lines) : lines[i] \in {"", "bad"}
             THEN [outcome |-> "threw", records |-> <<>>]
             ELSE [outcome |-> "records", records |-> lines]
    ELSE IF b.kind = "array" THEN [outcome |-> "records", records |-> b.body]
    ELSE IF ParsesWhole(b) THEN [outcome |-> "invalid", records |-> <<>>]
    ELSE [outcome |-> "threw", records |-> <<>>]

\* data.length
DeliveredCount(b) == Len(parseDelivery(b).records)

handleBrightDataEndpoint(secret, auth, body, sid, putOk) ==
    LET parsed == parseDelivery(body)
        records == DeliveredCount(body)
    IN
    /\ hookBody' = body
    /\ IF ~validateWebhookSecurity(secret)
       THEN /\ Respond("endpoint", secret, auth, sid, "", records, 401, FALSE, FALSE)
            /\ UNCHANGED <<instance, quarantine>>
       ELSE IF parsed.outcome = "threw"
       THEN \* JSON.parse / req.json() throws inside the try: catch -> 500
            /\ Respond("endpoint", secret, auth, sid, "", records, 500, FALSE, FALSE)
            /\ UNCHANGED <<instance, quarantine>>
       ELSE IF parsed.outcome = "invalid" \/ records = 0 \/ sid = NoHandle
       THEN /\ Respond("endpoint", secret, auth, sid, "", records, 400, FALSE, FALSE)
            /\ UNCHANGED <<instance, quarantine>>
       ELSE IF ~HasMapping(sid)
       THEN IF putOk
            THEN /\ quarantine' = quarantine \cup {TempKeyPrefix(sid)}
                 /\ Respond("endpoint", secret, auth, sid, "", records, 200, FALSE, TRUE)
                 /\ UNCHANGED instance
            ELSE /\ Respond("endpoint", secret, auth, sid, "", records, 500, FALSE, FALSE)
                 /\ UNCHANGED <<instance, quarantine>>
       ELSE IF EndpointAuthMismatch(sid, auth)
       THEN /\ Respond("endpoint", secret, auth, sid, "", records, 401, FALSE, FALSE)
            /\ UNCHANGED <<instance, quarantine>>
       ELSE /\ instance' = [instance EXCEPT !.dataDelivered = TRUE,
                                            !.dataRecordCount = records]
            /\ Respond("endpoint", secret, auth, sid, "", records, 200, TRUE, FALSE)
            /\ UNCHANGED quarantine
    /\ UNCHANGED <<pdVars, mapping, hookReady, polledAfterReady, storeVars, dcVars, auxVars>>

(***************************************************************************)
(* Specifications                                                          *)
(***************************************************************************)
\* chunking: the validate and split steps on runs of up to MaxChunkItems items
InitChunk == PDInitWith(MaxChunkItems, 1..MaxChunkBatch)
NextChunk == PDValidate \/ PDSplit
SpecChunk == InitChunk /\ [][NextChunk]_vars

\* the coordinator; the provider answers its trigger, progress and snapshot requests
Init == PDInitWith(MaxItems, 1..MaxItems)
Submit == \E resp \in {"rejected", "ok"}, dbOk \in BOOLEAN : PDSubmit(resp, dbOk)
Poll ==
    \E progress \in ProgressStatuses, snap \in SnapshotKinds, count \in 0..MaxRecords :
        PDPoll(progress, snap, count)
Next == PDValidate \/ PDSplit \/ Submit \/ Poll
Spec == Init /\ [][Next]_vars

\* one batch of the coordinator racing with the provider's calls of the notify URL
InitRace == PDInitWith(1, {})
ProviderNotify ==
    \E sid \in Handles, status \in {"running", "ready", "failed"} :
        /\ HasMapping(sid)
        /\ handleBrightDataNotify(mapping[sid], JsonObject, sid, status)
NextRace == PDValidate \/ PDSplit \/ Submit \/ Poll \/ ProviderNotify
SpecRace == InitRace /\ [][NextRace]_vars

\* the webhook endpoints under arbitrary callers, after a run that registered two
\* snapshots; the remaining snapshot ids have no registration
InitHook ==
    /\ pc = "done"
    /\ items = <<>>
    /\ batchSizeParam = Undefined
    /\ batches = <<>>
    /\ batchIndex = 0
    /\ retryCount = 0
    /\ snapshotId = NoHandle
    /\ webhookSecret = NoSecret
    /\ batchResults = <<>>
    /\ thrown = <<>>
    /\ nextHandle = 1
    /\ lastPoll = NoPoll
    /\ fetched = 0
    /\ mapping = [h \in Handles |-> IF h = 1 THEN <<"a", "b">>
                                    ELSE IF h = 2 THEN <<"b", "a">> ELSE NoSecret]
    /\ HookInit
    /\ AuxInit
    /\ StoreInit
    /\ DCIdle
Notify ==
    \E secret \in QuerySecrets, sid \in {NoHandle} \cup Handles, status \in NotifyStatuses :
        handleBrightDataNotify(secret, JsonObject, sid, status)
Endpoint ==
    \E secret \in QuerySecrets, auth \in AuthHeaders, sid \in {NoHandle} \cup Handles,
       records \in {0, MaxRecords}, putOk \in BOOLEAN :
        handleBrightDataEndpoint(secret, auth, JsonArray(records), sid, putOk)
NextHook == Notify \/ Endpoint
SpecHook == InitHook /\ [][NextHook]_vars

\* Webhook requests with every kind of body, for the registered snapshot 1: bodies that
\* parse, bodies with blank or malformed lines, documents that are not arrays
DeliveryTokens == {"", "bad", "r1"}
DeliveryBodies ==
    {[ctype |-> "ndjson", kind |-> "lines", body |-> b] :
        b \in SeqsUpTo(DeliveryTokens, MaxLines)}
      \cup {[ctype |-> "json", kind |-> "array", body |-> b] :
                b \in SeqsUpTo({"r1"}, MaxLines)}
      \cup {[ctype |-> "json", kind |-> "dataobj", body |-> <<>>],
            [ctype |-> "json", kind |-> "lines", body |-> <<"bad">>]}
NotifyAnyBody ==
    \E secret \in {<<>>, <<"a">>, <<"a", "b">>}, body \in NotifyBodies,
       sid \in {NoHandle, 1}, status \in {"", "completed"} :
        handleBrightDataNotify(secret, body, sid, status)
EndpointAnyBody ==
    \E secret \in {<<>>, <<"a", "b">>}, auth \in {<<>>, Bearer(<<"a", "b">>)},
       body \in DeliveryBodies, sid \in {NoHandle, 1} :
        handleBrightDataEndpoint(secret, auth, body, sid, TRUE)
NextDeliver == NotifyAnyBody \/ EndpointAnyBody
SpecDeliver == InitHook /\ [][NextDeliver]_vars

(***************************************************************************)
(* Relational writers: storePropertiesInDatabase (database/schema.ts) and  *)
(* the store-property-details step of ZillowPropertyDetails.run            *)
(***************************************************************************)
\* property.zpid of a payload record: the JS number n, the string "n", the string "n.0"
ZpidForms == {"number", "n", "n.0"}
\* the nested collections a payload record carries (non-empty arrays)
RecordShapes == {{}, {"property_photos"}, {"price_history", "schools"}, Tables}
TableOrder == <<"property_photos", "price_history", "tax_history", "schools">>

\* typeof property.zpid === 'number' ? Math.floor(property.zpid).toString() : String(property.zpid)
PropertyKey(z) == IF z = "number" THEN "n" ELSE z

\* zpidParam.endsWith('.0') ? zpidParam.slice(0, -2) : zpidParam
StripDot0(z) == IF z = "n.0" THEN "n" ELSE z

\* property.zpid.toString().includes('.') ? property.zpid.toString() : `${property.zpid}.0`
normalizedZpid(z) == IF z = "n.0" THEN z ELSE "n.0"

\* if (property.reso_facts || property.description || property.responsive_photos)
IsDetailed(detailed, cols) == detailed \/ "property_photos" \in cols

NestedSteps(cols) == SelectSeq(TableOrder, LAMBDA t : t \in cols)

\* mutant of Plan: the has_details update is issued right after the details row
Plan_FlagFirst(run, detailed, cols) ==
    IF run = "details"
    THEN <<"insertPropertyDetails", "flag">> \o NestedSteps(cols)
    ELSE <<"insertProperty">> \o
         (IF IsDetailed(detailed, cols)
          THEN <<"insertPropertyDetails", "flag">> \o NestedSteps(cols)
          ELSE <<>>)

\* the statements one record goes through, in the order the writer awaits them
Plan(run, detailed, cols) ==
    IF run = "details"
    THEN <<"insertPropertyDetails">> \o NestedSteps(cols) \o <<"flag">>
    ELSE <<"insertProperty">> \o
         (IF IsDetailed(detailed, cols)
          THEN <<"insertPropertyDetails">> \o NestedSteps(cols) \o <<"flag">>
          ELSE <<>>)

\* the identifier each statement of the writer is given
StatementZpid(run, z) == IF run = "details" THEN normalizedZpid(z) ELSE z

\* for (const property of ...) { try { ...
StoreBegin(run, z, detailed, cols) ==
    /\ job.outcome # "running"
    /\ \A t \in cols : nested[t]["n"] < MaxVersions
    /\ job' = [run |-> run, zpid |-> z, detailed |-> detailed, cols |-> cols, idx |-> 1,
               written |-> {}, flagged |-> FALSE, outcome |-> "running"]
    /\ UNCHANGED <<props, details, nested, pdVars, hookVars, dcVars, auxVars>>

\* the next awaited statement of the record; a throw lands in the record's catch.
\* bindAs: the text the store compares with zpid when the bound value is a number
StoreStep(ok, bindAs) ==
    /\ job.outcome = "running"
    /\ LET plan == Plan(job.run, job.detailed, job.cols)
           step == plan[job.idx]
           z == StatementZpid(job.run, job.zpid)
           \* insertPropertyPhotos etc. call zpidParam.endsWith on the value they are given
           typeError == step \in Tables /\ z = "number"
           flagKey == IF z = "number" THEN bindAs ELSE z
       IN  IF ~ok \/ typeError
           THEN /\ job' = [job EXCEPT !.outcome = "failed"]
                /\ UNCHANGED <<props, details, nested>>
           ELSE /\ job' = [job EXCEPT !.written = @ \cup {step},
                                      !.idx = @ + 1,
                                      !.flagged = @ \/ step = "flag",
                                      !.outcome = IF job.idx = Len(plan)
                                                  THEN "stored" ELSE "running"]
                /\ props' = IF step = "insertProperty"
                            THEN [props EXCEPT ![PropertyKey(z)] = "unset"]
                            ELSE IF step = "flag" /\ props[flagKey] # "absent"
                            THEN [props EXCEPT ![flagKey] = "set"]
                            ELSE props
                /\ details' = IF step = "insertPropertyDetails"
                              THEN details \cup {PropertyKey(z)} ELSE details
                /\ nested' = IF step \in Tables
                             THEN [nested EXCEPT ![step][StripDot0(z)] = @ + 1]
                             ELSE nested
    /\ UNCHANGED <<pdVars, hookVars, dcVars, auxVars>>

\* records persisted one after the other, by discovery runs and by detail runs
InitStore ==
    /\ pc = "done"
    /\ items = <<>>
    /\ batchSizeParam = Undefined
    /\ batches = <<>>
    /\ batchIndex = 0
    /\ retryCount = 0
    /\ snapshotId = NoHandle
    /\ webhookSecret = NoSecret
    /\ batchResults = <<>>
    /\ thrown = <<>>
    /\ nextHandle = 1
    /\ lastPoll = NoPoll
    /\ fetched = 0
    /\ mapping = [h \in Handles |-> NoSecret]
    /\ HookInit
    /\ AuxInit
    /\ StoreInit
    /\ DCIdle
Begin ==
    \E run \in {"discovery", "details"}, z \in ZpidForms, detailed \in BOOLEAN,
       cols \in RecordShapes : StoreBegin(run, z, detailed, cols)
Step == \E ok \in BOOLEAN, bindAs \in Keys : StoreStep(ok, bindAs)
NextStore == Begin \/ Step
SpecStore == InitStore /\ [][NextStore]_vars

(***************************************************************************)
(* Completion detection of a discovery run: the durable step               *)
(* 'wait-for-brightdata-completion' of DataCollector.run                   *)
(***************************************************************************)
\* retries: { limit: isProduction ? 2 : 24, ... }
RetryLimitWebhook == 2
RetryLimitPolling == 24
RetryLimit(prod) == IF prod THEN RetryLimitWebhook ELSE RetryLimitPolling

\* what one call of the provider's progress endpoint can answer: two non-2xx answers,
\* then the values of progressData.status ("other" is any value the code does not name)
DCResponses == {"http400-notexist", "http-error", "running", "pending", "failed",
                "ready", "completed", "complete", "other"}
ReadyStatuses == {"ready", "completed", "complete"}

\* the Error the step callback throws for an answer; NoError when it returns
DCThrows(resp) ==
    CASE resp = "http400-notexist" -> "Snapshot not ready yet..."
      [] resp = "http-error" -> "Progress check failed"
      [] resp \in {"running", "pending"} -> "Still processing..."
      [] resp = "failed" -> "Collection failed"
      [] resp \in ReadyStatuses -> NoError
      [] OTHER -> "Unknown progress status from BrightData"

\* one invocation of the step callback by the substrate: a return completes the step,
\* a thrown Error is retried until the retry limit is used up and then fails the step
DCWait(resp) ==
    /\ dcPc = "wait"
    /\ IF dcProd /\ dcRow = "completed"
       THEN \* if (webhookData && webhookData.status === 'completed') return { status: 'ready', ... }
            /\ dcPc' = "fetch"
            /\ UNCHANGED <<dcRetries, dcLastStatus, dcError>>
       ELSE /\ dcLastStatus' = resp
            /\ IF DCThrows(resp) = NoError
               THEN /\ dcPc' = "fetch"
                    /\ UNCHANGED <<dcRetries, dcError>>
               ELSE IF dcRetries < RetryLimit(dcProd)
               THEN /\ dcPc' = "wait"
                    /\ dcRetries' = dcRetries + 1
                    /\ UNCHANGED dcError
               ELSE /\ dcPc' = "errored"
                    /\ dcError' = DCThrows(resp)
                    /\ UNCHANGED dcRetries
    /\ UNCHANGED <<dcProd, dcRow, dcTail, pdVars, hookVars, storeVars, auxVars>>

\* a discovery run whose submission step has returned a snapshot id; in production the
\* submission step has inserted the collections row temp_<workflowId> with status 'running'
InitDC ==
    /\ pc = "done"
    /\ items = <<>>
    /\ batchSizeParam = Undefined
    /\ batches = <<>>
    /\ batchIndex = 0
    /\ retryCount = 0
    /\ snapshotId = NoHandle
    /\ webhookSecret = NoSecret
    /\ batchResults = <<>>
    /\ thrown = <<>>
    /\ nextHandle = 1
    /\ lastPoll = NoPoll
    /\ fetched = 0
    /\ mapping = [h \in Handles |-> NoSecret]
    /\ HookInit
    /\ AuxInit
    /\ StoreInit
    /\ dcPc = "wait"
    /\ dcProd \in BOOLEAN
    /\ dcRetries = 0
    /\ dcLastStatus = ""
    /\ dcError = NoError
    /\ dcRow = IF dcProd THEN "running" ELSE "none"
    /\ DCTailInit
NextDC == \E resp \in DCResponses : DCWait(resp)
SpecDC == InitDC /\ [][NextDC]_vars

(***************************************************************************)
(* Response decoding: the parsing code of fetch-brightdata-data            *)
(* (DataCollector), of wait-for-brightdata-completion and                  *)
(* extract-zillow-data (ZillowDataCollector) and of the polling loop       *)
(* (PropertyDetails)                                                       *)
(***************************************************************************)
Returned(recs) == [outcome |-> "records", records |-> recs]
Threw(message) == [outcome |-> message, records |-> <<>>]

\* mutant of parseDataCollector: a parsed document is always wrapped as one record
parseDataCollector_Wrap(p) ==
    IF ParsesWhole(p)
    THEN Returned(IF p.kind = "lines" THEN NonBlank(p.body) ELSE <<"envelope">>)
    ELSE Returned(WellFormed(p.body))

\* data-collector.ts: single JSON first (an array as it is, anything else wrapped as
\* one record), else line by line; the step returns whatever was parsed
parseDataCollector(p) ==
    IF ParsesWhole(p)
    THEN CASE p.kind = "array" -> Returned(p.body)
           [] p.kind = "dataobj" -> Returned(<<"envelope">>)
           [] OTHER -> Returned(NonBlank(p.body))
    ELSE Returned(WellFormed(p.body))

\* mutant of parsePropertyDetails: the line-by-line pass stops at the first bad line
parsePropertyDetails_Stop(p) ==
    IF ParsesWhole(p)
    THEN CASE p.kind \in {"array", "dataobj"} -> Returned(p.body)
           [] NonBlank(p.body)[1] \in RecordTokens -> Returned(NonBlank(p.body))
           [] OTHER -> [outcome |-> "none", records |-> <<>>]
    ELSE LET nb == NonBlank(p.body)
             bad == {i \in 1..Len(nb) : nb[i] = "bad"}
             upTo == IF bad = {} THEN Len(nb)
                     ELSE (CHOOSE i \in bad : \A j \in bad : i <= j) - 1
         IN  IF upTo > 0 THEN Returned(SubSeq(nb, 1, upTo))
             ELSE Threw("Failed to parse response")

\* part_007: an array, an object's data, or a single object with a zpid; any other
\* document leaves completedData null; else line by line, failing when nothing parses
parsePropertyDetails(p) ==
    IF ParsesWhole(p)
    THEN CASE p.kind \in {"array", "dataobj"} -> Returned(p.body)
           [] NonBlank(p.body)[1] \in RecordTokens -> Returned(NonBlank(p.body))
           [] OTHER -> [outcome |-> "none", records |-> <<>>]
    ELSE IF Len(WellFormed(p.body)) > 0
         THEN Returned(WellFormed(p.body))
         ELSE Threw("Failed to parse response")

\* zillow-data-collector.ts: the parsed document, or the parsed lines with a leading
\* status object taken as metadata, must report status 'ready'; extract-zillow-data
\* then takes its data array
parseZillowDataCollector(p) ==
    IF ParsesWhole(p)
    THEN CASE p.kind = "dataobj" -> Returned(p.body)
           [] p.kind = "lines" /\ NonBlank(p.body)[1] = "meta" ->
                  Threw("No data found in BrightData response")
           [] OTHER -> Threw("Still processing...")
    ELSE LET wf == WellFormed(p.body)
         IN  IF Len(TrimSplit(p.body)) = 1
             THEN Threw("Invalid JSON response from BrightData - response too large")
             ELSE IF Len(wf) = 0 THEN Threw("No valid JSON found in response")
             ELSE IF Len(wf) > 1 /\ wf[1] = "meta" THEN Returned(Tail(wf))
             ELSE IF Len(wf) > 1 /\ wf[1] = "rs" THEN Threw("Still processing...")
             ELSE Returned(wf)

Parse(w, result) ==
    /\ payload # NoPayload
    /\ decoded[w].outcome = "none"
    /\ result.outcome # "none"
    /\ decoded' = [decoded EXCEPT ![w] = result]
    /\ UNCHANGED <<payload, pdVars, hookVars, storeVars, dcVars, trkVars, appVars>>
ParseDataCollector == Parse("DataCollector", parseDataCollector(payload))
ParseZillowDataCollector == Parse("ZillowDataCollector", parseZillowDataCollector(payload))
ParsePropertyDetails == Parse("PropertyDetails", parsePropertyDetails(payload))

\* a response text has been read; each workflow's parsing code is applied to it
InitDecode ==
    /\ pc = "done"
    /\ items = <<>>
    /\ batchSizeParam = Undefined
    /\ batches = <<>>
    /\ batchIndex = 0
    /\ retryCount = 0
    /\ snapshotId = NoHandle
    /\ webhookSecret = NoSecret
    /\ batchResults = <<>>
    /\ thrown = <<>>
    /\ nextHandle = 1
    /\ lastPoll = NoPoll
    /\ fetched = 0
    /\ mapping = [h \in Handles |-> NoSecret]
    /\ HookInit
    /\ StoreInit
    /\ DCIdle
    /\ payload \in Payloads
    /\ decoded = NoDecoded
    /\ TrackerInit
    /\ AppInit
NextDecode == ParseDataCollector \/ ParseZillowDataCollector \/ ParsePropertyDetails
SpecDecode == InitDecode /\ [][NextDecode]_vars

(***************************************************************************)
(* DataCollector.run from submission to result                             *)
(***************************************************************************)
\* this.env.WEBHOOK_SECRET: one value for the whole deployment
EnvWebhookSecret == <<"env">>

\* a step callback threw: the substrate runs it again until MaxStepRetries retries are
\* spent, then the step and, with no try/catch in run(), the run fail with the message
DCStepThrows(message) ==
    IF dcTries < MaxStepRetries
    THEN /\ dcTries' = dcTries + 1
         /\ UNCHANGED <<dcPc, dcError>>
    ELSE /\ dcPc' = "errored"
         /\ dcError' = message
         /\ UNCHANGED dcTries

\* submit-brightdata-request: the trigger request and, in production, the INSERT of the
\* collections row temp_<workflowId>
DCSubmit(responseOk, sid, insertOk) ==
    /\ dcPc = "submit"
    /\ IF ~responseOk
       THEN /\ DCStepThrows("BrightData API error")
            /\ UNCHANGED <<dcSnapshot, dcSecret, dcRow>>
       ELSE /\ dcSecret' = IF dcProd THEN EnvWebhookSecret ELSE NoSecret
            /\ IF dcProd /\ ~insertOk
               THEN /\ DCStepThrows("D1 error")
                    /\ UNCHANGED <<dcSnapshot, dcRow>>
               ELSE /\ dcSnapshot' = sid
                    /\ dcRow' = IF dcProd THEN "running" ELSE dcRow
                    /\ dcPc' = "wait"
                    /\ dcTries' = 0
                    /\ UNCHANGED dcError
    /\ UNCHANGED <<dcProd, dcRetries, dcLastStatus, dcData, dcMirror, dcStored, dcReported,
                   dcRows, pdVars, hookVars, storeVars, auxVars>>

\* fetch-brightdata-data: the snapshot request and the parsing of its text
DCFetch(responseOk, p) ==
    /\ dcPc = "fetch"
    /\ IF ~responseOk
       THEN /\ DCStepThrows("Data fetch failed")
            /\ UNCHANGED <<payload, dcData>>
       ELSE /\ payload' = p
            /\ dcData' = parseDataCollector(p).records
            /\ dcPc' = "extract"
            /\ dcTries' = 0
            /\ UNCHANGED dcError
    /\ UNCHANGED <<dcProd, dcRetries, dcLastStatus, dcRow, dcSnapshot, dcSecret, dcMirror,
                   dcStored, dcReported, dcRows, decoded, trkVars, appVars, pdVars,
                   hookVars, storeVars>>

\* extract-zillow-data: completedData.data is the array the previous step built
DCExtract ==
    /\ dcPc = "extract"
    /\ dcPc' = "r2"
    /\ UNCHANGED <<dcProd, dcRetries, dcLastStatus, dcError, dcRow, dcTail, pdVars,
                   hookVars, storeVars, auxVars>>

\* store-data-in-r2: ZILLOW_DATA_BUCKET.put; a rejected put is the step's Error
DCStoreR2(putOk) ==
    /\ dcPc = "r2"
    /\ IF putOk
       THEN /\ dcMirror' = TRUE
            /\ dcPc' = "db"
            /\ dcTries' = 0
            /\ UNCHANGED dcError
       ELSE /\ DCStepThrows("R2 put failed")
            /\ UNCHANGED dcMirror
    /\ UNCHANGED <<dcProd, dcRetries, dcLastStatus, dcRow, dcSnapshot, dcSecret, dcData,
                   dcStored, dcReported, dcRows, pdVars, hookVars, storeVars, auxVars>>

\* store-data-in-database: insertCollection of a row collection_<Date.now()>_<snapshot>
\* (status 'pending' by default), storePropertiesInDatabase (the records at the
\* positions `failing` throw inside its per-record try/catch), then the UPDATE that sets
\* that row's status = 'completed' and record_count = rawZillowData.length. dbFails names
\* the statement of the step itself that D1 rejects. The row temp_<workflowId> of the
\* submission step (dcRow) is not touched
DCStoreDB(failing, dbFails) ==
    /\ dcPc = "db"
    /\ failing \subseteq 1..Len(dcData)
    /\ dcStored' = IF dbFails = "insertCollection" THEN dcStored
                   ELSE dcStored \cup (1..Len(dcData) \ failing)
    /\ dcRows' = CASE dbFails = "insertCollection" -> dcRows
                    [] dbFails = "update" -> [dcRows EXCEPT !.pending = @ + 1]
                    [] OTHER -> [dcRows EXCEPT !.completed = @ + 1]
    /\ IF dbFails = "none"
       THEN /\ dcReported' = Len(dcData)
            /\ dcPc' = "completed"
            /\ dcTries' = 0
            /\ UNCHANGED dcError
       ELSE /\ DCStepThrows("D1 error")
            /\ UNCHANGED dcReported
    /\ UNCHANGED <<dcProd, dcRetries, dcLastStatus, dcRow, dcSnapshot, dcSecret, dcData,
                   dcMirror, pdVars, hookVars, storeVars, auxVars>>

\* a discovery run about to execute its first step
InitCollect ==
    /\ pc = "done"
    /\ items = <<>>
    /\ batchSizeParam = Undefined
    /\ batches = <<>>
    /\ batchIndex = 0
    /\ retryCount = 0
    /\ snapshotId = NoHandle
    /\ webhookSecret = NoSecret
    /\ batchResults = <<>>
    /\ thrown = <<>>
    /\ nextHandle = 1
    /\ lastPoll = NoPoll
    /\ fetched = 0
    /\ mapping = [h \in Handles |-> NoSecret]
    /\ HookInit
    /\ AuxInit
    /\ StoreInit
    /\ dcPc = "submit"
    /\ dcProd \in BOOLEAN
    /\ dcRetries = 0
    /\ dcLastStatus = ""
    /\ dcError = NoError
    /\ dcRow = "none"
    /\ DCTailInit
CollectSubmit == \E responseOk, insertOk \in BOOLEAN : DCSubmit(responseOk, 1, insertOk)
\* the retries of the wait step are explored by SpecDC; here the snapshot is ready
\* when the step first asks
CollectWait == DCWait("ready")
CollectFetch == \E responseOk \in BOOLEAN, p \in Payloads : DCFetch(responseOk, p)
CollectStoreR2 == \E putOk \in BOOLEAN : DCStoreR2(putOk)
CollectStoreDB ==
    \E failing \in SUBSET (1..MaxLines), dbFails \in {"none", "insertCollection", "update"} :
        DCStoreDB(failing, dbFails)
NextCollect ==
    CollectSubmit \/ CollectWait \/ CollectFetch \/ DCExtract \/ CollectStoreR2 \/ CollectStoreDB
SpecCollect == InitCollect /\ [][NextCollect]_vars

(***************************************************************************)
(* Run tracking: WorkflowTracker (createRun, updateStatus, updateMetrics)  *)
(***************************************************************************)
WorkflowStatuses == {"queued", "running", "completed", "failed", "cancelled"}
TerminalStatuses == {"completed", "failed", "cancelled"}

\* the metrics objects given to updateMetrics: some group of fields defined
MetricsInputs ==
    {[c \in Counters |-> IF c \in D THEN v ELSE Unset] :
        D \in {{}, TotalCounters, FileCounters, Counters}, v \in 1..MaxMetric}

\* INSERT INTO workflow_runs (id, ..., status, ...) VALUES (?, ?, 'queued', ...)
\* id is the primary key: the statement fails when the row exists
InsertRun(row) == [status |-> "queued", counters |-> [c \in Counters |-> 0]]
InsertRunFails(row) == row.status # "absent"

\* UPDATE workflow_runs SET status = ?, ... WHERE id = ?
SetStatus(row, status) ==
    IF row.status = "absent" THEN row ELSE [row EXCEPT !.status = status]

\* mutant of ApplyMetrics: the given values are added to the columns
ApplyMetrics_Add(row, metrics) ==
    IF row.status = "absent" THEN row
    ELSE [row EXCEPT !.counters = [c \in Counters |->
              IF metrics[c] = Unset THEN row.counters[c] ELSE row.counters[c] + metrics[c]]]

\* UPDATE workflow_runs SET <column = ? for every defined field> WHERE id = ?
ApplyMetrics(row, metrics) ==
    IF row.status = "absent" THEN row
    ELSE [row EXCEPT !.counters = [c \in Counters |->
              IF metrics[c] = Unset THEN row.counters[c] ELSE metrics[c]]]

createRun(ok) ==
    /\ workflowRun' = IF ok /\ ~InsertRunFails(workflowRun) THEN InsertRun(workflowRun) ELSE workflowRun
    /\ UNCHANGED <<stepTries, applied, lastAttempt, decVars, pdVars, hookVars, storeVars, dcVars, appVars>>

updateStatus(status, ok) ==
    /\ workflowRun' = IF ok THEN SetStatus(workflowRun, status) ELSE workflowRun
    /\ UNCHANGED <<stepTries, applied, lastAttempt, decVars, pdVars, hookVars, storeVars, dcVars, appVars>>

updateMetrics(metrics, ok) ==
    /\ workflowRun.status # "absent"
    /\ ok
    /\ applied.metrics = metrics => applied.times < MaxReplays
    /\ workflowRun' = ApplyMetrics(workflowRun, metrics)
    /\ applied' = [metrics |-> metrics,
                   times |-> IF applied.metrics = metrics THEN applied.times + 1 ELSE 1]
    /\ UNCHANGED <<stepTries, lastAttempt, decVars, pdVars, hookVars, storeVars, dcVars, appVars>>

\* the tracker called by any caller, in any order
InitTracker ==
    /\ pc = "done"
    /\ items = <<>>
    /\ batchSizeParam = Undefined
    /\ batches = <<>>
    /\ batchIndex = 0
    /\ retryCount = 0
    /\ snapshotId = NoHandle
    /\ webhookSecret = NoSecret
    /\ batchResults = <<>>
    /\ thrown = <<>>
    /\ nextHandle = 1
    /\ lastPoll = NoPoll
    /\ fetched = 0
    /\ mapping = [h \in Handles |-> NoSecret]
    /\ HookInit
    /\ AuxInit
    /\ StoreInit
    /\ DCIdle
CreateRun == \E ok \in BOOLEAN : createRun(ok)
UpdateStatus == \E status \in WorkflowStatuses, ok \in BOOLEAN : updateStatus(status, ok)
UpdateMetrics == \E metrics \in MetricsInputs, ok \in BOOLEAN : updateMetrics(metrics, ok)
NextTracker == CreateRun \/ UpdateStatus \/ UpdateMetrics
SpecTracker == InitTracker /\ [][NextTracker]_vars

(***************************************************************************)
(* PropertyDetails.run as a sequence of durable steps, with run tracking   *)
(***************************************************************************)
\* the substrate executes the callback of a durable step again when it threw or when
\* its result was not recorded, until the retries of the step are used up
StepRetry(step, threw, healthy, stay, giveUp) ==
    /\ lastAttempt' = [step |-> step, again |-> stepTries > 0, healthy |-> healthy,
                       threw |-> threw]
    /\ IF stepTries < MaxStepRetries
       THEN pc' = stay /\ stepTries' = stepTries + 1
       ELSE pc' = giveUp /\ stepTries' = 0

StepDone(step, next) ==
    /\ lastAttempt' = [step |-> step, again |-> stepTries > 0, healthy |-> TRUE,
                       threw |-> FALSE]
    /\ pc' = next
    /\ stepTries' = 0

\* step.do('log-workflow-start'): createRun, then updateStatus(workflowId, 'running');
\* the step is outside the try block, so giving it up ends run() with the exception.
\* insertOk, updateOk: the store executes the statement; recorded: the substrate
\* records the step's result
PDLogStart(insertOk, updateOk, recorded) ==
    /\ pc = "start"
    /\ LET inserted == insertOk /\ ~InsertRunFails(workflowRun)
           afterInsert == IF inserted THEN InsertRun(workflowRun) ELSE workflowRun
       IN  IF ~inserted
           THEN /\ workflowRun' = workflowRun
                /\ StepRetry("log-workflow-start", TRUE, insertOk, "start", "crashed")
           ELSE IF ~updateOk
           THEN /\ workflowRun' = afterInsert
                /\ StepRetry("log-workflow-start", TRUE, FALSE, "start", "crashed")
           ELSE /\ workflowRun' = SetStatus(afterInsert, "running")
                /\ IF recorded THEN StepDone("log-workflow-start", "validate")
                   ELSE StepRetry("log-workflow-start", FALSE, TRUE, "start", "crashed")
    /\ UNCHANGED <<items, batchSizeParam, batches, batchIndex, retryCount, snapshotId,
                   webhookSecret, batchResults, thrown, nextHandle, lastPoll, fetched,
                   applied, decVars, hookVars, storeVars, dcVars, appVars>>

\* validate-zpids-and-get-urls gives up (no zpids provided, or the query keeps failing):
\* the exception is caught by the catch block of run()
PDValidateThrows ==
    /\ pc = "validate"
    /\ pc' = "catch"
    /\ UNCHANGED <<items, batchSizeParam, batches, batchIndex, retryCount, snapshotId,
                   webhookSecret, batchResults, thrown, nextHandle, lastPoll, fetched,
                   trkVars, decVars, hookVars, storeVars, dcVars, appVars>>

\* step.do('store-property-details'): every exception is caught per record
PDStoreDetails ==
    /\ pc = "done"
    /\ pc' = "r2"
    /\ UNCHANGED <<items, batchSizeParam, batches, batchIndex, retryCount, snapshotId,
                   webhookSecret, batchResults, thrown, nextHandle, lastPoll, fetched,
                   trkVars, decVars, hookVars, storeVars, dcVars, appVars>>

\* step.do('store-details-in-r2'): returns without a put when no batch has data
PDStoreR2(putOk) ==
    /\ pc = "r2"
    /\ LET hasData == \E i \in 1..Len(batchResults) :
                          batchResults[i].hasData /\ batchResults[i].dataCount > 0
       IN  IF putOk \/ ~hasData
           THEN StepDone("store-details-in-r2", "completion")
           ELSE StepRetry("store-details-in-r2", TRUE, FALSE, "r2", "catch")
    /\ UNCHANGED <<items, batchSizeParam, batches, batchIndex, retryCount, snapshotId,
                   webhookSecret, batchResults, thrown, nextHandle, lastPoll, fetched,
                   workflowRun, applied, decVars, hookVars, storeVars, dcVars, appVars>>

\* step.do('log-workflow-completion'): updateMetrics, setOutputSummary, then
\* updateStatus(workflowId, 'completed')
PDLogCompletion(metrics, metricsOk, statusOk, recorded) ==
    /\ pc = "completion"
    /\ IF ~metricsOk
       THEN /\ UNCHANGED <<workflowRun, applied>>
            /\ StepRetry("log-workflow-completion", TRUE, FALSE, "completion", "catch")
       ELSE /\ applied' = [metrics |-> metrics, times |-> 1]
            /\ IF ~statusOk
               THEN /\ workflowRun' = ApplyMetrics(workflowRun, metrics)
                    /\ StepRetry("log-workflow-completion", TRUE, FALSE, "completion", "catch")
               ELSE /\ workflowRun' = SetStatus(ApplyMetrics(workflowRun, metrics), "completed")
                    /\ IF recorded THEN StepDone("log-workflow-completion", "finished")
                       ELSE StepRetry("log-workflow-completion", FALSE, TRUE,
                                      "completion", "catch")
    /\ UNCHANGED <<items, batchSizeParam, batches, batchIndex, retryCount, snapshotId,
                   webhookSecret, batchResults, thrown, nextHandle, lastPoll, fetched,
                   decVars, hookVars, storeVars, dcVars, appVars>>

\* catch (error) { step.do('log-workflow-error'): updateStatus(workflowId, 'failed',
\* errorMessage) }; throw error
PDLogError(statusOk) ==
    /\ pc = "catch"
    /\ IF statusOk
       THEN /\ workflowRun' = SetStatus(workflowRun, "failed")
            /\ StepDone("log-workflow-error", "errored")
       ELSE /\ workflowRun' = workflowRun
            /\ StepRetry("log-workflow-error", TRUE, FALSE, "catch", "errored")
    /\ UNCHANGED <<items, batchSizeParam, batches, batchIndex, retryCount, snapshotId,
                   webhookSecret, batchResults, thrown, nextHandle, lastPoll, fetched,
                   applied, decVars, hookVars, storeVars, dcVars, appVars>>

\* a run of at most one identifier, from its first durable step on
InitRun ==
    /\ pc = "start"
    /\ \E n \in 0..1 : items = [k \in 1..n |-> k]
    /\ batchSizeParam = Undefined
    /\ batches = <<>>
    /\ batchIndex = 0
    /\ retryCount = 0
    /\ snapshotId = NoHandle
    /\ webhookSecret = NoSecret
    /\ batchResults = <<>>
    /\ thrown = <<>>
    /\ nextHandle = 1
    /\ lastPoll = NoPoll
    /\ fetched = 0
    /\ mapping = [h \in Handles |-> NoSecret]
    /\ HookInit
    /\ AuxInit
    /\ StoreInit
    /\ DCIdle
LogStart == \E insertOk \in BOOLEAN, updateOk \in BOOLEAN, recorded \in BOOLEAN :
                PDLogStart(insertOk, updateOk, recorded)
StoreR2 == \E putOk \in BOOLEAN : PDStoreR2(putOk)
LogCompletion ==
    \E metrics \in {m \in MetricsInputs : \A c \in Counters : m[c] # Unset},
       metricsOk \in BOOLEAN, statusOk \in BOOLEAN, recorded \in BOOLEAN :
        PDLogCompletion(metrics, metricsOk, statusOk, recorded)
LogError == \E statusOk \in BOOLEAN : PDLogError(statusOk)
NextRun ==
    \/ LogStart \/ PDValidate \/ PDValidateThrows \/ PDSplit \/ Submit \/ Poll
    \/ PDStoreDetails \/ StoreR2 \/ LogCompletion \/ LogError
SpecRun == InitRun /\ [][NextRun]_vars

(***************************************************************************)
(* Favorites: handleCreateFavorite, for one user                           *)
(***************************************************************************)
FavZpids == {"z1", "z2"}

\* the handler up to the await of insertFavorite: authentication, body validation and
\* checkFavoriteExists. zpid "" is a body without zpid or url
favoriteCheck(r, authorized, zpid) ==
    /\ favReq[r].pc = "idle"
    /\ favReq' = [favReq EXCEPT ![r] =
          IF ~authorized THEN [pc |-> "done", zpid |-> zpid, resp |-> 401]
          ELSE IF zpid = "" THEN [pc |-> "done", zpid |-> zpid, resp |-> 400]
          ELSE IF zpid \in favorites THEN [pc |-> "done", zpid |-> zpid, resp |-> 409]
          ELSE [pc |-> "insert", zpid |-> zpid, resp |-> 0]]
    /\ UNCHANGED <<favorites, autoTable, autoResult, chunker, detailReq, decVars, trkVars, pdVars, hookVars,
                   storeVars, dcVars>>

\* insertFavorite and the response: UNIQUE(user_id, zpid) makes the INSERT throw when the
\* pair has a row, and the handler's catch answers 500
favoriteInsert(r) ==
    /\ favReq[r].pc = "insert"
    /\ IF favReq[r].zpid \in favorites
       THEN /\ favReq' = [favReq EXCEPT ![r].pc = "done", ![r].resp = 500]
            /\ UNCHANGED favorites
       ELSE /\ favReq' = [favReq EXCEPT ![r].pc = "done", ![r].resp = 201]
            /\ favorites' = favorites \cup {favReq[r].zpid}
    /\ UNCHANGED <<autoTable, autoResult, chunker, detailReq, decVars, trkVars, pdVars, hookVars, storeVars,
                   dcVars>>

\* up to MaxRequests create requests of one user, handled concurrently
InitFav ==
    /\ pc = "done"
    /\ items = <<>>
    /\ batchSizeParam = Undefined
    /\ batches = <<>>
    /\ batchIndex = 0
    /\ retryCount = 0
    /\ snapshotId = NoHandle
    /\ webhookSecret = NoSecret
    /\ batchResults = <<>>
    /\ thrown = <<>>
    /\ nextHandle = 1
    /\ lastPoll = NoPoll
    /\ fetched = 0
    /\ mapping = [h \in Handles |-> NoSecret]
    /\ HookInit
    /\ AuxInit
    /\ StoreInit
    /\ DCIdle
FavoriteCheck ==
    \E r \in 1..MaxRequests, authorized \in BOOLEAN, zpid \in FavZpids \cup {""} :
        favoriteCheck(r, authorized, zpid)
FavoriteInsert == \E r \in 1..MaxRequests : favoriteInsert(r)
NextFav == FavoriteCheck \/ FavoriteInsert
SpecFav == InitFav /\ [][NextFav]_vars

(***************************************************************************)
(* Auto-enrichment: handleZillowDetailsAuto                                *)
(***************************************************************************)
\* a row of properties as the two SELECTs see it: has_details (TRUE, FALSE or NULL),
\* created_at within the last 7 days, collection_id equal to the requested one.
\* autoTable is in created_at order, oldest first, and a row's index is its zpid
AutoRows == [has_details : {"true", "false", "null"}, recent : BOOLEAN,
             inCollection : BOOLEAN]

\* has_details = FALSE OR has_details IS NULL
NeedsDetails_FalseOnly(row) == row.has_details = "false"
NeedsDetails(row) == row.has_details \in {"false", "null"}

\* the WHERE clause: with a collectionId the collection's rows, without one the rows
\* created in the last 7 days
Matches(row, byCollection) ==
    /\ NeedsDetails(row)
    /\ IF byCollection THEN row.inCollection ELSE row.recent

\* ORDER BY created_at DESC LIMIT ?
RECURSIVE NewestFirst(_, _)
NewestFirst(rows, limit) ==
    IF rows = {} \/ limit = 0 THEN <<>>
    ELSE LET newest == CHOOSE i \in rows : \A j \in rows : j <= i
         IN <<newest>> \o NewestFirst(rows \ {newest}, limit - 1)

\* POST /zillow/details/auto: the zpids handed to the enrichment workflow (none, and no
\* workflow, when the query returns no row)
handleZillowDetailsAuto(bodyLimit, byCollection) ==
    LET limit == IF bodyLimit = Undefined THEN DefaultLimit ELSE bodyLimit
        rows == {i \in 1..Len(autoTable) : Matches(autoTable[i], byCollection)}
    IN /\ autoResult' = [called |-> TRUE, limit |-> limit, byCollection |-> byCollection,
                         zpids |-> NewestFirst(rows, limit)]
       /\ UNCHANGED <<autoTable, favorites, favReq, chunker, detailReq, decVars, trkVars, pdVars, hookVars,
                      storeVars, dcVars>>

\* created_at grows with the index, so the rows of the last 7 days are the newest ones
WindowOrdered(table) ==
    \A i, j \in 1..Len(table) : i < j /\ table[i].recent => table[j].recent

InitAuto ==
    /\ pc = "done"
    /\ items = <<>>
    /\ batchSizeParam = Undefined
    /\ batches = <<>>
    /\ batchIndex = 0
    /\ retryCount = 0
    /\ snapshotId = NoHandle
    /\ webhookSecret = NoSecret
    /\ batchResults = <<>>
    /\ thrown = <<>>
    /\ nextHandle = 1
    /\ lastPoll = NoPoll
    /\ fetched = 0
    /\ mapping = [h \in Handles |-> NoSecret]
    /\ HookInit
    /\ payload = NoPayload
    /\ decoded = NoDecoded
    /\ TrackerInit
    /\ favorites = {}
    /\ favReq = [r \in 1..MaxRequests |-> NoRequest]
    /\ chunker = NoChunker
    /\ detailReq = NoDetailReq
    /\ autoTable \in {t \in UNION {[1..n -> AutoRows] : n \in 0..MaxRows} : WindowOrdered(t)}
    /\ autoResult = NoAuto
    /\ StoreInit
    /\ DCIdle
HandleZillowDetailsAuto ==
    \E bodyLimit \in {Undefined} \cup 1..MaxLimit, byCollection \in BOOLEAN :
        handleZillowDetailsAuto(bodyLimit, byCollection)
NextAuto == HandleZillowDetailsAuto
SpecAuto == InitAuto /\ [][NextAuto]_vars

(***************************************************************************)
(* The batches loop of process-property-details for any batchSize a        *)
(* request can carry                                                       *)
(***************************************************************************)
\* batchSize values of a request body, in halves: -1, 0, 0.5, 1, 1.5, 2, 3
BodyBatchSizes2 == {-2, 0, 1, 2, 3, 4, 6}

\* ToIntegerOrInfinity of a value given in halves: truncation toward zero
Trunc2(x2) == IF x2 >= 0 THEN x2 \div 2 ELSE -((-x2) \div 2)

\* Array.prototype.slice's relative index: a negative index counts from the end
Relative(k, n) == IF k < 0 THEN (IF n + k > 0 THEN n + k ELSE 0) ELSE (IF k < n THEN k ELSE n)

\* validPropertiesData.slice(i, i + batchSize) of the items 1..n
JsSlice(n, from2, to2) ==
    LET from == Relative(Trunc2(from2), n)
        to == Relative(Trunc2(to2), n)
    IN  IF from < to THEN [k \in 1..(to - from) |-> from + k] ELSE <<>>

\* the batchSize the workflow runs with. handleZillowDetailsCollect passes params on as
\* they are; handleZillowDetailsAuto sends body.batchSize || 10; the workflow's
\* destructuring default (10) applies to undefined only. given: the body has a batchSize
WorkflowBatchSize2(endpoint, given, bodySize) ==
    IF ~given THEN 2 * DefaultBatchSize
    ELSE IF endpoint = "auto" /\ bodySize = 0 THEN 2 * DefaultBatchSize
    ELSE bodySize

\* the cap on followed iterations: one more than the 2n iterations of the smallest
\* positive step
MaxPushes == 2 * MaxSplitItems + 1

\* process-property-details is entered with n validated items
SplitEnter(endpoint, given, bodySize, n) ==
    /\ chunker.pc = "idle"
    /\ chunker' = [pc |-> "loop", n |-> n, size2 |-> WorkflowBatchSize2(endpoint, given, bodySize),
                   i2 |-> 0, chunks |-> <<>>]
    /\ UNCHANGED <<favorites, favReq, autoTable, autoResult, detailReq, decVars, trkVars,
                   pdVars,
                   hookVars, storeVars, dcVars>>

\* for (let i = 0; i < validPropertiesData.length; i += batchSize) batches.push(slice(...))
SplitIterate ==
    /\ chunker.pc = "loop"
    /\ IF chunker.i2 < 2 * chunker.n
       THEN /\ Len(chunker.chunks) < MaxPushes
            /\ chunker' = [chunker EXCEPT
                  !.chunks = Append(@, JsSlice(chunker.n, chunker.i2,
                                               chunker.i2 + chunker.size2)),
                  !.i2 = @ + chunker.size2]
       ELSE chunker' = [chunker EXCEPT !.pc = "done"]
    /\ UNCHANGED <<favorites, favReq, autoTable, autoResult, detailReq, decVars, trkVars,
                   pdVars,
                   hookVars, storeVars, dcVars>>

InitSplit ==
    /\ pc = "done"
    /\ items = <<>>
    /\ batchSizeParam = Undefined
    /\ batches = <<>>
    /\ batchIndex = 0
    /\ retryCount = 0
    /\ snapshotId = NoHandle
    /\ webhookSecret = NoSecret
    /\ batchResults = <<>>
    /\ thrown = <<>>
    /\ nextHandle = 1
    /\ lastPoll = NoPoll
    /\ fetched = 0
    /\ mapping = [h \in Handles |-> NoSecret]
    /\ HookInit
    /\ AuxInit
    /\ StoreInit
    /\ DCIdle
SplitStart ==
    \E endpoint \in {"collect", "auto"}, given \in BOOLEAN, bodySize \in BodyBatchSizes2,
       n \in 1..MaxSplitItems : SplitEnter(endpoint, given, bodySize, n)
NextSplit == SplitStart \/ SplitIterate
SpecSplit == InitSplit /\ [][NextSplit]_vars

(***************************************************************************)
(* PropertyDetails.run from the requested zpids: validate-zpids-and-get-   *)
(* urls, the coordinator, and the skipped count of the result              *)
(***************************************************************************)
Range(sq) == {sq[i] : i \in 1..Len(sq)}
\* the orders in which a SELECT without ORDER BY can return the rows S
Orders(S) == {f \in [1..Cardinality(S) -> S] : \A i, j \in DOMAIN f : i # j => f[i] # f[j]}

\* mutant of ValidZpids: every requested zpid that has a row is valid
ValidZpids_AnyFlag(zpids) == {k \in Range(zpids) : props[k] # "absent"}

\* SELECT zpid, url FROM properties WHERE zpid IN (...) AND (has_details = FALSE OR
\* has_details IS NULL)
ValidZpids(zpids) == {k \in Range(zpids) : props[k] = "unset"}

\* validate-zpids-and-get-urls
PDValidateZpids(rows) ==
    /\ pc = "request"
    /\ rows \in Orders(ValidZpids(detailReq.zpids))
    /\ items' = rows
    /\ pc' = "validate"
    /\ UNCHANGED <<batchSizeParam, batches, batchIndex, retryCount, snapshotId,
                   webhookSecret, batchResults, thrown, nextHandle, lastPoll, fetched,
                   hookVars, storeVars, dcVars, auxVars>>

\* skippedCount / totalSkipped: zpids.length when nothing was valid, else
\* zpids.length - validPropertiesData.length
PDReportSkipped ==
    /\ pc \in {"returned", "done"}
    /\ detailReq.skipped = -1
    /\ detailReq' = [detailReq EXCEPT !.skipped =
                        IF pc = "returned" THEN Len(detailReq.zpids)
                        ELSE Len(detailReq.zpids) - Len(items)]
    /\ UNCHANGED <<favorites, favReq, autoTable, autoResult, chunker, decVars, trkVars,
                   pdVars, hookVars, storeVars, dcVars>>

\* another run stores the details of a property and sets its has_details flag
MarkEnriched(k) ==
    /\ props[k] = "unset"
    /\ props' = [props EXCEPT ![k] = "set"]
    /\ UNCHANGED <<details, nested, job, pdVars, hookVars, dcVars, auxVars>>

\* a detail run asked for 1..MaxRequested zpids, over any state of the properties table
InitDetail ==
    /\ pc = "request"
    /\ items = <<>>
    /\ batchSizeParam \in {Undefined, 1}
    /\ batches = <<>>
    /\ batchIndex = 0
    /\ retryCount = 0
    /\ snapshotId = NoHandle
    /\ webhookSecret = NoSecret
    /\ batchResults = <<>>
    /\ thrown = <<>>
    /\ nextHandle = 1
    /\ lastPoll = NoPoll
    /\ fetched = 0
    /\ mapping = [h \in Handles |-> NoSecret]
    /\ HookInit
    /\ payload = NoPayload
    /\ decoded = NoDecoded
    /\ TrackerInit
    /\ favorites = {}
    /\ favReq = [r \in 1..MaxRequests |-> NoRequest]
    /\ autoTable = <<>>
    /\ autoResult = NoAuto
    /\ chunker = NoChunker
    /\ detailReq \in {[zpids |-> z, skipped |-> -1] :
                        z \in SeqsUpTo(Keys, MaxRequested) \ {<<>>}}
    /\ props \in [Keys -> {"absent", "unset", "set"}]
    /\ details = {}
    /\ nested = [t \in Tables |-> [k \in Keys |-> 0]]
    /\ job = NoJob
    /\ DCIdle
ValidateZpids == \E rows \in SeqsUpTo(Keys, MaxRequested) : PDValidateZpids(rows)
DetailSubmit == \E resp \in {"rejected", "ok"} : PDSubmit(resp, TRUE)
DetailPoll == \E progress \in {"failed", "ready"} : PDPoll(progress, "array", 1)
OtherRunEnriches == \E k \in Keys : MarkEnriched(k)
NextDetail ==
    \/ ValidateZpids
    \/ PDValidate
    \/ PDSplit
    \/ DetailSubmit
    \/ DetailPoll
    \/ PDReportSkipped
    \/ OtherRunEnriches
SpecDetail == InitDetail /\ [][NextDetail]_vars

(***************************************************************************)
(* Claims                                                                  *)
(***************************************************************************)
\* C1: a chunk whose submission, completion detection or decoding throws is recorded
\* as an outcome with an error message and zero records, and every other chunk still
\* resolves with its own outcome: when the coordinator is done, every chunk has one.
C1_FailureIsolated ==
    /\ Len(batchResults) = batchIndex
    /\ Len(thrown) = batchIndex
    /\ \A k \in 1..Len(batchResults) :
        /\ batchResults[k].batchIndex = k
        /\ thrown[k] => /\ batchResults[k].error # NoError
                        /\ batchResults[k].dataCount = 0
                        /\ ~batchResults[k].hasData
    /\ pc = "done" => Len(batchResults) = Len(batches)

C1_Witness ==
    /\ pc = "done"
    /\ Len(batches) >= 2
    /\ thrown[1]
    /\ batchResults[1].error # NoError
    /\ ~thrown[2]
    /\ batchResults[2].dataCount > 0

CeilDiv(n, b) == (n + b - 1) \div b

\* C2: n items and batch size b >= 1 (10 when not supplied) give ceil(n/b) consecutive
\* chunks in item order, each of b items except the last, which has n - b*(ceil(n/b)-1).
C2_Chunking ==
    pc \in {"submit", "done", "returned"} =>
        LET n == Len(items)
            b == IF batchSizeParam = Undefined THEN 10 ELSE batchSizeParam
            c == CeilDiv(n, b)
        IN  /\ Len(batches) = c
            /\ \A j \in 1..c :
                /\ Len(batches[j]) = IF j < c THEN b ELSE n - b * (c - 1)
                /\ \A k \in 1..Len(batches[j]) : batches[j][k] = items[(j - 1) * b + k]

C2_Witness ==
    /\ pc = "submit"
    /\ Len(items) = 25
    /\ batchSizeParam = 10
    /\ Len(batches) = 3
    /\ Len(batches[1]) = 10 /\ Len(batches[2]) = 10 /\ Len(batches[3]) = 5

\* C5: a data-delivery callback for a registered handle with the correct query secret
\* but a missing or different Authorization header is rejected (401 when its body is a
\* non-empty array) and its payload does not reach the workflow instance.
C5_BearerRequired ==
    [][(/\ lastHook'.kind = "endpoint"
        /\ HasMapping(lastHook'.sid)
        /\ lastHook'.secret = mapping[lastHook'.sid]
        /\ lastHook'.auth # Bearer(mapping[lastHook'.sid]))
       => /\ lastHook'.resp = IF lastHook'.records > 0 THEN 401 ELSE 400
          /\ ~lastHook'.updated
          /\ instance' = instance
          /\ quarantine' = quarantine]_vars

C5_Witness ==
    /\ lastHook.kind = "endpoint"
    /\ HasMapping(lastHook.sid)
    /\ lastHook.secret = mapping[lastHook.sid]
    /\ lastHook.auth = Bearer(<<"a">>)
    /\ lastHook.records > 0
    /\ lastHook.resp = 401
    /\ ~instance.dataDelivered

\* C6: a data-delivery callback whose query secret differs from the secret stored for
\* its handle is rejected, also when its bearer header is correct.
C6_QuerySecretRequired ==
    (/\ lastHook.kind = "endpoint"
     /\ HasMapping(lastHook.sid)
     /\ lastHook.secret # mapping[lastHook.sid])
    => (lastHook.resp # 200 /\ ~lastHook.updated)

\* C7: a notify callback updates the workflow only if its query secret is present and
\* equals exactly the secret stored for the payload's handle; with a missing or
\* different secret it is rejected and the workflow state is left as it was.
C7_NotifySecretExact ==
    [][lastHook'.kind = "notify" =>
        IF /\ lastHook'.secret # <<>>
           /\ HasMapping(lastHook'.sid)
           /\ lastHook'.secret = mapping[lastHook'.sid]
        THEN lastHook'.status # "" =>
                /\ lastHook'.resp = 200
                /\ instance'.webhookReceived
                /\ instance'.webhookStatus = lastHook'.status
        ELSE /\ lastHook'.resp \in {400, 401, 404}
             /\ ~lastHook'.updated
             /\ instance' = instance]_vars

C7_Witness ==
    /\ lastHook.kind = "notify"
    /\ HasMapping(lastHook.sid)
    /\ lastHook.secret = <<"a">>
    /\ mapping[lastHook.sid] = <<"a", "b">>
    /\ lastHook.status = "completed"
    /\ lastHook.resp = 401
    /\ ~instance.webhookReceived

C10_WebhookShortCircuits == polledAfterReady = {}

\* The writes a record must have completed before it may be flagged as enriched: the
\* primary-row upsert(s) of its writer and one write per nested collection it carries.
RequiredWrites(j) ==
    (IF j.run = "discovery" THEN {"insertProperty"} ELSE {})
        \cup {"insertPropertyDetails"} \cup j.cols

\* C3: the has_details flag of a record turns to set only in a step before which the
\* primary-row upsert and every nested-collection write of that record have succeeded;
\* a record whose persistence failed has not been flagged and the failing step leaves
\* every flag as it was.
C3_FlagAfterAllWrites ==
    [][/\ (\E k \in Keys : props[k] # "set" /\ props'[k] = "set")
            => /\ job.outcome = "running"
               /\ RequiredWrites(job) \subseteq job.written
       /\ (job'.flagged /\ ~job.flagged) => RequiredWrites(job) \subseteq job.written
       /\ (job'.outcome = "failed" /\ job.outcome = "running")
            => /\ ~job'.flagged
               /\ props' = props]_vars

\* an enrichment record failed on a nested write after its details row and its photos
\* were written, and the primary row it would have flagged is still unflagged
C3_Witness ==
    /\ job.run = "details"
    /\ job.outcome = "failed"
    /\ job.cols = Tables
    /\ job.written = {"insertPropertyDetails", "property_photos"}
    /\ ~job.flagged
    /\ props[normalizedZpid(job.zpid)] = "unset"

\* C4: a has_details flag that is set stays set through every later operation.
C4_FlagNeverCleared ==
    [][\A k \in Keys : props[k] = "set" => props'[k] = "set"]_vars

\* C9: a poll answered running or pending keeps the submission polling (until the retry
\* bound is used up), one answered ready, completed or complete makes it Ready, one
\* answered failed makes it Failed with the provider's message, and nothing else makes
\* it Ready.
C9_PollTransitions ==
    [][(dcPc = "wait" /\ ~(dcProd /\ dcRow = "completed"))
        => /\ dcLastStatus' \in {"running", "pending"}
                => \/ dcPc' = "wait"
                   \/ dcRetries = RetryLimit(dcProd) /\ dcPc' = "errored"
           /\ dcLastStatus' \in ReadyStatuses => dcPc' = "fetch"
           /\ dcLastStatus' = "failed"
                => dcPc' = "errored" /\ dcError' = "Collection failed"
           /\ dcPc' = "fetch" => dcLastStatus' \in ReadyStatuses]_vars

C12_FetchedOnce ==
    [][(/\ pc = "poll"
        /\ Len(batchResults') > Len(batchResults)
        /\ batchResults'[Len(batchResults')].hasData
        /\ lastPoll'.snap # "empty400")
        => fetched' = 1]_vars

\* C13: for a response text that is a JSON array, the parsing code of DataCollector and
\* of PropertyDetails returns the elements of the array, as many and in the same order.
C13_ArrayDecoded ==
    payload.kind = "array"
        => \A w \in {"DataCollector", "PropertyDetails"} :
              decoded[w].outcome # "none" => decoded[w] = Returned(payload.body)

\* an array of two different records has been parsed by both
C13_Witness ==
    /\ payload = [kind |-> "array", body |-> <<"r2", "r1">>]
    /\ decoded["DataCollector"].records = <<"r2", "r1">>
    /\ decoded["PropertyDetails"].records = <<"r2", "r1">>

\* newline-delimited text of at least two non-blank lines, exactly one of them malformed
OneBadLine(p) ==
    /\ p.kind = "lines"
    /\ Len(NonBlank(p.body)) >= 2
    /\ Cardinality({i \in 1..Len(p.body) : p.body[i] = "bad"}) = 1

C15_NothingParsedFails ==
    (payload.kind = "lines" /\ WellFormed(payload.body) = <<>>)
        => \A w \in {"DataCollector", "ZillowDataCollector"} :
              decoded[w].outcome # "records"

\* C16: whatever form a record's zpid arrives in (number, integer string, string with
\* ".0"), every row written for it is keyed by the one canonical integer string.
C16_CanonicalKeys ==
    /\ \A k \in Keys : props[k] # "absent" => k = "n"
    /\ details \subseteq {"n"}
    /\ \A t \in Tables : \A k \in Keys \ {"n"} : nested[t][k] = 0

\* C17: the status of a run only moves forward, queued -> running -> completed or failed,
\* with cancelled reachable from queued and running, and a completed, failed or
\* cancelled run keeps its status.
C17_StatusMonotonic ==
    [][\/ workflowRun'.status = workflowRun.status
       \/ workflowRun.status = "absent"
       \/ workflowRun.status = "queued" /\ workflowRun'.status # "absent"
       \/ workflowRun.status = "running" /\ workflowRun'.status \in TerminalStatuses]_vars

\* C19: applying to a run the metrics object that was applied to it last leaves every
\* metric column of the run as it is.
C19_MetricsIdempotent ==
    [][(applied'.metrics = applied.metrics /\ applied'.times = applied.times + 1
            /\ applied.times >= 1)
        => workflowRun'.counters = workflowRun.counters]_vars

\* all metrics fields were applied twice in a row to a run whose columns had other values
C19_Witness ==
    /\ applied.times = 2
    /\ \A c \in Counters : applied.metrics[c] = 2 /\ workflowRun.counters[c] = 2
    /\ workflowRun.status = "running"

\* C18: a run that got past its first durable step and has finished (by the early
\* return, by returning its results, or by rethrowing an error) has a row in
\* workflow_runs whose status is completed or failed.
C18_FinishedRunTerminal ==
    pc \in {"returned", "finished", "errored"}
        => workflowRun.status \in {"completed", "failed"}

\* C20: an execution of a tracking step that repeats an earlier execution of that step,
\* and in which the store executes every statement it is sent, does not throw.
C20_ReexecutionSucceeds ==
    (lastAttempt.again /\ lastAttempt.healthy) => ~lastAttempt.threw

\* C22: a run that is left with no valid identifier after validation, or whose first
\* submission the provider rejects, ends in error with its row in workflow_runs failed.
C22_PerRunErrorFailsRun ==
    (/\ pc \in {"returned", "finished", "errored"}
     /\ \/ Len(items) = 0
        \/ Len(batchResults) > 0 /\ batchResults[1].error = "BrightData API error")
        => pc = "errored" /\ workflowRun.status = "failed"

\* C28: there is one outcome per resolved chunk, in chunk order, and the outcome of every
\* chunk whose submission the provider accepted carries the snapshot id it was given.
C28_OutcomeKeepsHandle ==
    /\ Len(batchResults) = batchIndex
    /\ \A i \in 1..Len(batchResults) :
          /\ batchResults[i].batchIndex = i
          /\ batchResults[i].zpids = batches[i]
          /\ batchResults[i].error # "BrightData API error"
                => batchResults[i].snapshotId # NoHandle

\* C30: every iteration of the polling loop that leaves the batch unresolved consumes
\* one retry.
C30_IterationConsumesRetry ==
    [][(pc = "poll" /\ pc' = "poll" /\ batchIndex' = batchIndex
            /\ Len(batchResults') = Len(batchResults))
        => retryCount' = retryCount + 1]_vars

\* C25: each nested table holds, for an identifier, the entries of one payload only: the
\* one persisted last.
C25_NestedReplaced ==
    \A t \in Tables : \A k \in Keys : nested[t][k] <= 1

\* C29: a create request for a pair that has a favorite is answered 409, never with
\* another error status, and the pair keeps one favorite.
C29_DuplicateAnswered409 ==
    \A r \in 1..MaxRequests :
        /\ favReq[r].resp # 500
        /\ favReq[r].resp = 201 => favReq[r].zpid \in favorites

C21_MirrorFailureTolerated ==
    ~(dcPc = "errored" /\ dcError = "R2 put failed" /\ dcStored = {})

\* C23: a discovery run whose response text has n lines, exactly one of them malformed,
\* hands n-1 records to the writer and leaves a Run row with processed = n-1,
\* errors = 1 and requested = n.
C23_RunRowShowsTally ==
    (dcPc = "completed" /\ OneBadLine(payload)) =>
        LET n == Len(NonBlank(payload.body))
        IN /\ Len(dcData) = n - 1
           /\ workflowRun.status # "absent"
           /\ workflowRun.counters["total_processed"] = n - 1
           /\ workflowRun.counters["total_errors"] = 1
           /\ workflowRun.counters["total_requested"] = n

\* C26: a webhook-mode submission has registered, under the snapshot id it was given,
\* the secret embedded in its URLs, and that secret is its own, not a shared one.
C26_SubmissionRegistersOwnSecret ==
    (dcProd /\ dcSnapshot # NoHandle) =>
        /\ HasMapping(dcSnapshot)
        /\ mapping[dcSnapshot] = dcSecret
        /\ dcSecret # EnvWebhookSecret

\* C27: a record whose persistence failed is counted as an error: the number of records
\* a finished run reports as stored is the number of records that were persisted.
C27_FailedRecordTallied ==
    dcPc = "completed" => dcReported = Cardinality(dcStored)

\* C31: a not-found answer of the provider during polling keeps the submission in
\* Polling and does not use up one of the attempts that bound failures.
C31_NotFoundNotCounted ==
    [][(dcPc = "wait" /\ dcLastStatus' = "http400-notexist")
        => (dcPc' = "wait" /\ dcRetries' = dcRetries)]_vars

\* C32: the result of a submission is requested only after a status check has answered
\* ready: the iteration that resolved a batch by requesting the snapshot had seen a
\* ready status, not a failed status check or a status it does not know.
C32_FetchOnlyAfterReady ==
    lastPoll.snap # "" => lastPoll.progress = "ready"

\* C33: a response text of one line that fails JSON parsing is a decode failure for
\* every parsing code: none of them returns a result for it.
C33_SingleBadLineFails ==
    \A w \in DOMAIN decoded :
        (payload.kind = "lines" /\ TrimSplit(payload.body) = <<"bad">>
            /\ decoded[w].outcome # "none")
        => decoded[w].outcome # "records"

\* C34: when line-by-line decoding of ZillowDataCollector yields more than one parsed
\* line, the first is left out as a header only if it has a status and no identifier; a
\* first line that carries an identifier is kept, and all parsed lines are the records.
C34_HeaderHasNoIdentifier ==
    LET wf == WellFormed(payload.body)
    IN (/\ payload.kind = "lines"
        /\ ~ParsesWhole(payload)
        /\ Len(wf) > 1
        /\ decoded["ZillowDataCollector"].outcome # "none")
       => decoded["ZillowDataCollector"] =
             Returned(IF wf[1] = "meta" THEN Tail(wf) ELSE wf)

\* C35: a data delivery whose newline-delimited body has a malformed line next to
\* well-formed ones, and that is otherwise acceptable, is accepted and delivers the
\* well-formed records.
C35_MalformedLineSkipped ==
    (/\ lastHook.kind = "endpoint"
     /\ validateWebhookSecurity(lastHook.secret)
     /\ HasMapping(lastHook.sid)
     /\ ~EndpointAuthMismatch(lastHook.sid, lastHook.auth)
     /\ hookBody.ctype = "ndjson"
     /\ \E i \in 1..Len(hookBody.body) : hookBody.body[i] = "bad"
     /\ WellFormed(hookBody.body) # <<>>)
    => (lastHook.resp = 200 /\ lastHook.updated)

\* C36: a webhook request whose secret (status notification) or bearer credential (data
\* delivery) matches no registration, or whose query secret is missing, is answered 401
\* whatever its body is.
C36_SecurityRejectionIs401 ==
    /\ (/\ lastHook.kind = "notify"
        /\ \A h \in Handles : HasMapping(h) => mapping[h] # lastHook.secret)
       => lastHook.resp = 401
    /\ (/\ lastHook.kind = "endpoint"
        /\ \/ lastHook.secret = <<>>
           \/ \A h \in Handles : HasMapping(h) => lastHook.auth # Bearer(mapping[h]))
       => lastHook.resp = 401

\* C37: the statements of one persist of a record (primary row, details row, nested
\* tables, has_details update) are all given the same identifier string.
C37_OneKeyPerPersist ==
    job.outcome = "stored" =>
        LET z == StatementZpid(job.run, job.zpid)
            rowKeys == {PropertyKey(z) : s \in
                           job.written \cap {"insertProperty", "insertPropertyDetails"}}
            nestedKeys == {StripDot0(z) : s \in job.written \cap Tables}
            flagKeys == {z : s \in (job.written \cap {"flag"}) \ {s2 \in {"flag"} : z = "number"}}
        IN Cardinality(rowKeys \cup nestedKeys \cup flagKeys) <= 1

\* C38: for every batchSize a request can carry, the batches loop ends and every chunk
\* it pushes is non-empty: it never pushes more chunks than there are items.
C38_SplitYieldsNonEmptyChunks ==
    /\ \A j \in 1..Len(chunker.chunks) : chunker.chunks[j] # <<>>
    /\ Len(chunker.chunks) <= chunker.n

\* C39: when a discovery run in webhook mode has finished, none of its collection rows
\* is pending or running, and it has left exactly one collection row for its snapshot.
C39_OneTerminalCollectionRow ==
    (dcProd /\ dcPc \in {"completed", "errored"} /\ dcSnapshot # NoHandle) =>
        /\ dcRow # "running"
        /\ dcRows.pending = 0
        /\ (IF dcRow = "none" THEN 0 ELSE 1) + dcRows.pending + dcRows.completed = 1

\* C40: the validated items of a detail run are the requested zpids that have a row with
\* the enriched flag unset when the validation step runs, each once; every batch sent
\* to the provider consists of validated items; and the skipped count the run reports is
\* requested - validated.
C40_OnlyUnenrichedSubmitted ==
    /\ [][(pc = "request" /\ pc' # "request")
            => /\ Range(items') = {k \in Range(detailReq.zpids) : props[k] = "unset"}
               /\ Len(items') = Cardinality(Range(items'))]_vars
    /\ [](\A j \in 1..Len(batches) : Range(batches[j]) \subseteq Range(items))
    /\ [](detailReq.skipped # -1
            => detailReq.skipped = Len(detailReq.zpids) - Len(items))

\* a run asked for two zpids, one of them already enriched: the other one was submitted
\* in a batch of its own and the run reports one skipped
C40_Witness ==
    /\ detailReq.zpids = <<"n", "n.0">>
    /\ props["n.0"] = "set"
    /\ items = <<"n">>
    /\ Len(batchResults) = 1
    /\ batchResults[1].zpids = <<"n">>
    /\ detailReq.skipped = 1

====
